---- MODULE Spec2Model ----
(***************************************************************************)
(* Model of evm_test_runner/src/plonky2_runner.rs: the traversal of the    *)
(* parsed test corpus (group -> sub group -> test), the classification of  *)
(* one backend outcome into a TestStatus, the cooperative abort checkpoint *)
(* and the update of the persistent run state.                             *)
(***************************************************************************)
EXTENDS Integers, Sequences, FiniteSets, TLC

(* ------------------------------ bounds -------------------------------- *)
\* Largest number of tests of a corpus, and number of distinct state roots.
MaxTotal == 2
NumHashes == 2
\* Largest number of test vectors the parser is given.
MaxVectors == 3

Hashes == 1..NumHashes
ErrMsgs == {"evm_err"}

(* ------------------------------ corpus -------------------------------- *)
\* A corpus shape is a sequence of groups, each a sequence of sub groups,
\* each the number of its tests.  The shapes are built from what separates
\* two consecutive tests: nothing (same sub group), a sub group boundary, or
\* a group boundary; at a group boundary the group left also gets a trailing
\* empty sub group and an empty group follows it.
Separators == {"same", "sub_group", "group"}

RECURSIVE AddTests(_, _)
AddTests(shape, seps) ==
  IF Len(seps) = 0 THEN shape
  ELSE LET g == Len(shape)
           s == Len(shape[g])
           next ==
             CASE Head(seps) = "same" ->
                    [shape EXCEPT ![g][s] = @ + 1]
               [] Head(seps) = "sub_group" ->
                    [shape EXCEPT ![g] = Append(@, 1)]
               [] Head(seps) = "group" ->
                    [shape EXCEPT ![g] = Append(@, 0)] \o << <<>>, <<1>> >>
       IN AddTests(next, Tail(seps))

CorpusShapes ==
  { <<>>, << <<>> >>, << <<0>> >> }
    \cup UNION {{AddTests(<< <<1>> >>, seps) : seps \in [1..(n - 1) -> Separators]} :
                  n \in 1..MaxTotal}

RECURSIVE SumSeq(_)
SumSeq(s) == IF Len(s) = 0 THEN 0 ELSE Head(s) + SumSeq(Tail(s))

\* num_tests_in_groups, on a shape.
ShapeTotal(shape) ==
  SumSeq([g \in 1..Len(shape) |-> SumSeq(shape[g])])

\* Number of tests of the shape that precede sub group s of group g.
TestsBefore(shape, g, s) ==
  SumSeq([i \in 1..(g - 1) |-> SumSeq(shape[i])])
    + SumSeq([j \in 1..(s - 1) |-> shape[g][j]])

\* Test names: "flat" numbers the tests through the whole corpus (unique in
\* the run), "local" numbers them inside their sub group (unique within the
\* sub group only).
Namings == {"flat", "local"}

\* struct Test { name, info }, info = TestVariantRunInfo with the expected
\* state root and the optional revm variant.
MkTest(shape, naming, g, s, t) ==
  LET flat == TestsBefore(shape, g, s) + t
  IN [name     |-> IF naming = "flat" THEN flat ELSE t,
      expected |-> (flat % NumHashes) + 1,
      revm     |-> (flat % 2 = 1)]

MkSubGroup(shape, naming, g, s) ==
  [name  |-> <<g, s>>,
   tests |-> [t \in 1..shape[g][s] |-> MkTest(shape, naming, g, s, t)]]

MkGroup(shape, naming, g) ==
  [name       |-> g,
   sub_groups |-> [s \in 1..Len(shape[g]) |-> MkSubGroup(shape, naming, g, s)]]

MkCorpus(shape, naming) ==
  [g \in 1..Len(shape) |-> MkGroup(shape, naming, g)]

Corpora ==
  {MkCorpus(shape, naming) :
     shape \in CorpusShapes,
     naming \in Namings}

\* flat_map over sub groups and tests, as in num_tests_in_groups.
RECURSIVE FlatSubGroups(_)
FlatSubGroups(sgs) ==
  IF Len(sgs) = 0 THEN <<>> ELSE Head(sgs).tests \o FlatSubGroups(Tail(sgs))

RECURSIVE FlatTests(_)
FlatTests(groups) ==
  IF Len(groups) = 0 THEN <<>>
  ELSE FlatSubGroups(Head(groups).sub_groups) \o FlatTests(Tail(groups))

num_tests_in_groups(groups) == Len(FlatTests(groups))

(* --------------------------- status values ---------------------------- *)
Correct == [tag |-> "Correct"]
Difference(actual, expected) ==
  [tag |-> "Difference", actual |-> actual, expected |-> expected]

Passed == [tag |-> "Passed"]
EvmErr(msg) == [tag |-> "EvmErr", msg |-> msg]
IncorrectAccountFinalState(diff) ==
  [tag |-> "IncorrectAccountFinalState", diff |-> diff]

\* The outcomes prove_with_outputs can hand back.
BackendOutcomes ==
  {[ok |-> FALSE, msg |-> m, state_root |-> 0] : m \in ErrMsgs}
    \cup {[ok |-> TRUE, msg |-> "", state_root |-> h] : h \in Hashes}

\* The outcomes of the revm replay (instance.transact_ref()).
ReplayOutcomes == {"ok", "err"}

(* ------------------------ status classification ----------------------- *)
\* Variant of TrieDiff: the two hashes of Difference in the other order.
TrieDiff_Swapped(actual, expected) ==
  [state       |-> Difference(expected, actual),
   receipt     |-> Correct,
   transaction |-> Correct]

\* TrieFinalStateDiff built on a state root mismatch.
TrieDiff(actual, expected) ==
  [state       |-> Difference(actual, expected),
   receipt     |-> Correct,
   transaction |-> Correct]

\* run_test_and_get_test_result: the TestStatus of one backend outcome.
run_test_and_get_test_result(outcome, test) ==
  IF ~outcome.ok THEN EvmErr(outcome.msg)
  ELSE IF outcome.state_root # test.expected
       THEN IncorrectAccountFinalState(TrieDiff(outcome.state_root, test.expected))
       ELSE Passed

\* Variant of ReplayAttempted: the replay does not depend on the revm variant
\* being there.
ReplayAttempted_AnyMismatch(outcome, test) ==
  outcome.ok /\ outcome.state_root # test.expected

\* The revm replay is attempted on a state root mismatch of a test that
\* carries a revm variant.
ReplayAttempted(outcome, test) ==
  outcome.ok /\ outcome.state_root # test.expected /\ test.revm

(* ----------------------------- run state ------------------------------ *)
\* res.clone().into(): the status as the run state stores it.
Into(status) == status

\* TestRunEntries::update_test_state: insert or overwrite one entry.
update_test_state(state, name, status) ==
  [k \in (DOMAIN state) \cup {name} |-> IF k = name THEN status ELSE state[k]]

EmptyState == [k \in {} |-> Passed]

\* A key no test of any corpus has.
StaleKey == 0

\* Run states a run can start from: empty, or left behind by an earlier run.
InitialStates ==
  {EmptyState,
   [k \in {StaleKey, 1} |-> IF k = 1 THEN EvmErr("old") ELSE Passed]}

(* ------------------------------- state -------------------------------- *)
VARIABLES
  parsed_tests,          \* the corpus handed to run_plonky2_tests
  persistent_test_state, \* TestRunEntries: test name -> status
  process_aborted,       \* the shared AtomicBool
  pc,                    \* position of the control thread
  gi, si, ti,            \* index of the current group, sub group, test
  res,                   \* run_test: status of the test in flight
  test_res,              \* results collected for the current sub group
  sub_group_res,         \* results collected for the current group
  group_res,             \* results collected for the run
  ret,                   \* value returned by run_plonky2_tests
  num_tests,             \* SimpleProgressIndicator.num_tests
  curr_test,             \* SimpleProgressIndicator.curr_test
  events,                \* calls received by the progress indicator
  printed,               \* tests whose StateDiff was printed
  started,               \* history: positions whose backend call started
  returned,              \* history: statuses of the backend calls that returned
  replayed,              \* history: positions whose revm replay was attempted
  abort_set_at,          \* history: where the run was when the signal was set
  init_state,            \* history: the run state at the start of the run
  updates,               \* history: the calls of update_test_state
  \* eth_test_parser, run():
  vectors,               \* the deserialized test bodies: TRUE is Ok, FALSE is Err
  iter_next,             \* number of vectors the filter_map has consumed
  handles,               \* the spawned conversion tasks, in spawn order
  warnings,              \* the vectors a warning was logged for
  files,                 \* the vectors whose .cbor file was written, in order
  parser_pc,             \* position of run()
  parser_ret             \* value returned by run()

vars ==
  <<parsed_tests, persistent_test_state, process_aborted, pc, gi, si, ti, res,
    test_res, sub_group_res, group_res, ret, num_tests, curr_test, events,
    printed, started, returned, replayed, abort_set_at, init_state, updates,
    vectors, iter_next, handles, warnings, files, parser_pc, parser_ret>>

parser_vars ==
  <<vectors, iter_next, handles, warnings, files, parser_pc, parser_ret>>

runner_vars ==
  <<parsed_tests, persistent_test_state, pc, gi, si, ti, res,
    test_res, sub_group_res, group_res, ret, num_tests, curr_test, events,
    printed, started, returned, replayed, init_state, updates>>

NoRet == [tag |-> "None"]
Ok(v) == [tag |-> "Ok", val |-> v]
Err == [tag |-> "Err"]
NotSet == [set |-> FALSE, pc |-> "", completed |-> 0, started |-> 0]

\* The parser is another program: it does not run during a run of the runner.
ParserIdle ==
  /\ vectors = <<>>
  /\ iter_next = 0
  /\ handles = <<>>
  /\ warnings = <<>>
  /\ files = <<>>
  /\ parser_pc = "idle"
  /\ parser_ret = NoRet

Init ==
  /\ parsed_tests \in Corpora
  /\ persistent_test_state \in InitialStates
  /\ init_state = persistent_test_state
  /\ process_aborted = FALSE
  /\ pc = "start"
  /\ gi = 0 /\ si = 0 /\ ti = 0
  /\ res = Passed
  /\ test_res = <<>> /\ sub_group_res = <<>> /\ group_res = <<>>
  /\ ret = NoRet
  /\ num_tests = 0 /\ curr_test = 0
  /\ events = <<>>
  /\ printed = <<>>
  /\ started = <<>> /\ returned = <<>> /\ replayed = <<>>
  /\ abort_set_at = NotSet
  /\ updates = <<>>
  /\ ParserIdle

CurGroup == parsed_tests[gi]
CurSubGroup == CurGroup.sub_groups[si]
CurTest == CurSubGroup.tests[ti]

(* -------------------------- pieces of run_test ------------------------ *)
\* Variant of AfterErr: the sub group drops the Err and goes on with its next
\* test.
AfterErr_NextTest == "tests"

\* Where control goes when run_test returns Err(()): collect() and `?` stop
\* the sub group, the group and the run.
AfterErr == "done"

\* Variant of Collect: the items collected so far are returned on an Err too.
Collect_KeepPartial(items, failed) == Ok(items)

\* collect::<RunnerResult<_>>(): Ok with every item, or the first Err.
Collect(items, failed) == IF failed THEN Err ELSE Ok(items)

\* Variant of ShouldStop: a backend error stops the run as well.
ShouldStop_OnEvmErr(aborted, status) == aborted \/ status.tag = "EvmErr"

\* Variant of ShouldStop: the signal is never looked at.
ShouldStop_Never(aborted, status) == FALSE

\* run_test: the condition on which it returns Err(()) after the backend call.
ShouldStop(aborted, status) == aborted

\* Variant of EntryKey: the status is stored under the name of the next test.
EntryKey_Next(test) == test.name + 1

\* run_test: the key under which the status of a test is stored.
EntryKey(test) == test.name

\* Variant of StateAtCheckpoint: the run state is never updated.
StateAtCheckpoint_NoUpdate(state, stop, test, status) == state

\* Variant of StateAtCheckpoint: the status is stored before the signal is
\* looked at.
StateAtCheckpoint_PersistFirst(state, stop, test, status) ==
  update_test_state(state, EntryKey(test), Into(status))

\* Variant of StateAtCheckpoint: an entry that exists is not overwritten.
StateAtCheckpoint_KeepFirst(state, stop, test, status) ==
  IF stop \/ EntryKey(test) \in DOMAIN state THEN state
  ELSE update_test_state(state, EntryKey(test), Into(status))

\* What the run state becomes at the checkpoint of run_test.
StateAtCheckpoint(state, stop, test, status) ==
  IF stop THEN state ELSE update_test_state(state, EntryKey(test), Into(status))

\* Variant of CompletedAtCheckpoint: the completion is notified before the
\* signal is looked at.
CompletedAtCheckpoint_NotifyFirst(n, stop) == n + 1

\* SimpleProgressIndicator.curr_test after the checkpoint of run_test:
\* notify_test_completed is called only past the abort check.
CompletedAtCheckpoint(n, stop) == IF stop THEN n ELSE n + 1

\* The calls of update_test_state made so far, after the checkpoint.
UpdatesAtCheckpoint(log, stop, test, status) ==
  IF stop THEN log
  ELSE Append(log, [key |-> EntryKey(test), status |-> Into(status)])

\* Variant of AfterOk: a test that ended in EvmErr is proved again.
AfterOk_RetryEvmErr(status) ==
  IF status.tag = "EvmErr" THEN "proving" ELSE "tests"

\* Where control goes when run_test returns Ok: back to the test iterator.
AfterOk(status) == "tests"

\* Variant of MkTestRunResult: the result does not carry the status computed.
MkTestRunResult_Passed(test, status) == [name |-> test.name, status |-> Passed]

\* The TestRunResult run_test returns.
MkTestRunResult(test, status) == [name |-> test.name, status |-> status]

(* ------------------------------ actions ------------------------------- *)
\* The interrupt handler sets the signal; nothing ever clears it.
SetAborted ==
  /\ ~process_aborted
  /\ process_aborted' = TRUE
  /\ abort_set_at' = [set |-> TRUE, pc |-> pc, completed |-> curr_test,
                      started |-> Len(started)]
  /\ UNCHANGED runner_vars
  /\ UNCHANGED parser_vars

\* run_plonky2_tests up to the first group: count the tests and create the
\* progress indicator.
StartRun ==
  /\ pc = "start"
  /\ num_tests' = num_tests_in_groups(parsed_tests)
  /\ curr_test' = 0
  /\ pc' = "groups"
  /\ UNCHANGED <<parsed_tests, persistent_test_state, process_aborted, gi, si,
                 ti, res, test_res, sub_group_res, group_res, ret, events,
                 printed, started, returned, replayed, abort_set_at, init_state,
                 updates>>
  /\ UNCHANGED parser_vars

\* The group iterator yields the next group: run_test_group starts.
RunTestGroup ==
  /\ pc = "groups"
  /\ gi < Len(parsed_tests)
  /\ gi' = gi + 1
  /\ si' = 0
  /\ sub_group_res' = <<>>
  /\ pc' = "sub_groups"
  /\ UNCHANGED <<parsed_tests, persistent_test_state, process_aborted, ti, res,
                 test_res, group_res, ret, num_tests, curr_test, events,
                 printed, started, returned, replayed, abort_set_at, init_state,
                 updates>>
  /\ UNCHANGED parser_vars

\* The group iterator is exhausted: collect() returns Ok with all groups.
FinishRun ==
  /\ pc = "groups"
  /\ gi = Len(parsed_tests)
  /\ ret' = Collect(group_res, FALSE)
  /\ pc' = "done"
  /\ UNCHANGED <<parsed_tests, persistent_test_state, process_aborted, gi, si,
                 ti, res, test_res, sub_group_res, group_res, num_tests,
                 curr_test, events, printed, started, returned, replayed,
                 abort_set_at, init_state,
                 updates>>
  /\ UNCHANGED parser_vars

\* The sub group iterator yields the next sub group: run_test_sub_group starts.
RunTestSubGroup ==
  /\ pc = "sub_groups"
  /\ si < Len(CurGroup.sub_groups)
  /\ si' = si + 1
  /\ ti' = 0
  /\ test_res' = <<>>
  /\ pc' = "tests"
  /\ UNCHANGED <<parsed_tests, persistent_test_state, process_aborted, gi, res,
                 sub_group_res, group_res, ret, num_tests, curr_test, events,
                 printed, started, returned, replayed, abort_set_at, init_state,
                 updates>>
  /\ UNCHANGED parser_vars

\* The sub group iterator is exhausted: run_test_group returns Ok.
FinishGroup ==
  /\ pc = "sub_groups"
  /\ si = Len(CurGroup.sub_groups)
  /\ group_res' = Append(group_res,
                         [name |-> CurGroup.name, sub_group_res |-> sub_group_res])
  /\ pc' = "groups"
  /\ UNCHANGED <<parsed_tests, persistent_test_state, process_aborted, gi, si,
                 ti, res, test_res, sub_group_res, ret, num_tests, curr_test,
                 events, printed, started, returned, replayed, abort_set_at,
                 init_state,
                 updates>>
  /\ UNCHANGED parser_vars

\* The test iterator yields the next test: run_test announces it and calls
\* the backend.
StartTest ==
  /\ pc = "tests"
  /\ ti < Len(CurSubGroup.tests)
  /\ ti' = ti + 1
  /\ events' = Append(events, [op |-> "set_current_test_name",
                               name |-> CurSubGroup.tests[ti + 1].name])
  /\ started' = Append(started, <<gi, si, ti + 1>>)
  /\ pc' = "proving"
  /\ UNCHANGED <<parsed_tests, persistent_test_state, process_aborted, gi, si,
                 res, test_res, sub_group_res, group_res, ret, num_tests,
                 curr_test, printed, returned, replayed, abort_set_at,
                 init_state,
                 updates>>
  /\ UNCHANGED parser_vars

\* The test iterator is exhausted: run_test_sub_group returns Ok.
FinishSubGroup ==
  /\ pc = "tests"
  /\ ti = Len(CurSubGroup.tests)
  /\ sub_group_res' = Append(sub_group_res,
                             [name |-> CurSubGroup.name, test_res |-> test_res])
  /\ pc' = "sub_groups"
  /\ UNCHANGED <<parsed_tests, persistent_test_state, process_aborted, gi, si,
                 ti, res, test_res, group_res, ret, num_tests, curr_test,
                 events, printed, started, returned, replayed, abort_set_at,
                 init_state,
                 updates>>
  /\ UNCHANGED parser_vars

\* run_test_and_get_test_result returns: the backend outcome is classified,
\* and on a mismatch with a revm variant the replay is attempted and the
\* StateDiff printed if it succeeds.
BackendReturns ==
  /\ pc = "proving"
  /\ \E outcome \in BackendOutcomes, replay \in ReplayOutcomes :
       /\ res' = run_test_and_get_test_result(outcome, CurTest)
       /\ returned' = Append(returned, [pos     |-> <<gi, si, ti>>,
                                        outcome |-> outcome,
                                        status  |-> run_test_and_get_test_result(outcome, CurTest)])
       /\ IF ReplayAttempted(outcome, CurTest)
          THEN /\ replayed' = Append(replayed, [pos |-> <<gi, si, ti>>,
                                                 replay |-> replay])
               /\ printed' = IF replay = "ok"
                             THEN Append(printed, <<gi, si, ti>>)
                             ELSE printed
          ELSE /\ replay = "ok"
               /\ UNCHANGED <<replayed, printed>>
  /\ pc' = "checkpoint"
  /\ UNCHANGED <<parsed_tests, persistent_test_state, process_aborted, gi, si,
                 ti, test_res, sub_group_res, group_res, ret, num_tests,
                 curr_test, events, started, abort_set_at, init_state,
                 updates>>
  /\ UNCHANGED parser_vars

\* run_test, signal read set: return Err(()), which ends the whole run.
CheckpointAborted ==
  /\ pc = "checkpoint"
  /\ ShouldStop(process_aborted, res)
  /\ persistent_test_state' =
       StateAtCheckpoint(persistent_test_state, TRUE, CurTest, res)
  /\ curr_test' = CompletedAtCheckpoint(curr_test, TRUE)
  /\ updates' = UpdatesAtCheckpoint(updates, TRUE, CurTest, res)
  /\ pc' = AfterErr
  /\ ret' = IF AfterErr = "done" THEN Collect(group_res, TRUE) ELSE ret
  /\ UNCHANGED <<parsed_tests, process_aborted, gi, si, ti, res, test_res,
                 sub_group_res, group_res, num_tests, events,
                 printed, started, returned, replayed, abort_set_at, init_state>>
  /\ UNCHANGED parser_vars

\* run_test, signal read unset: update the run state, notify the progress
\* indicator, return Ok with the result.
CheckpointPassed ==
  /\ pc = "checkpoint"
  /\ ~ShouldStop(process_aborted, res)
  /\ persistent_test_state' =
       StateAtCheckpoint(persistent_test_state, FALSE, CurTest, res)
  /\ curr_test' = CompletedAtCheckpoint(curr_test, FALSE)
  /\ updates' = UpdatesAtCheckpoint(updates, FALSE, CurTest, res)
  /\ events' = Append(events, [op |-> "notify_test_completed",
                               name |-> CurTest.name])
  /\ test_res' = Append(test_res, MkTestRunResult(CurTest, res))
  /\ pc' = AfterOk(res)
  /\ UNCHANGED <<parsed_tests, process_aborted, gi, si, ti, res,
                 sub_group_res, group_res, ret, num_tests, printed, started,
                 returned, replayed, abort_set_at, init_state>>
  /\ UNCHANGED parser_vars

Next ==
  \/ SetAborted
  \/ StartRun
  \/ RunTestGroup
  \/ FinishRun
  \/ RunTestSubGroup
  \/ FinishGroup
  \/ StartTest
  \/ FinishSubGroup
  \/ BackendReturns
  \/ CheckpointAborted
  \/ CheckpointPassed

Spec == Init /\ [][Next]_vars

\* The steps of the control thread: everything but the interrupt handler.
RunnerStep ==
  \/ StartRun
  \/ RunTestGroup
  \/ FinishRun
  \/ RunTestSubGroup
  \/ FinishGroup
  \/ StartTest
  \/ FinishSubGroup
  \/ BackendReturns
  \/ CheckpointAborted
  \/ CheckpointPassed

\* The control thread keeps running and every backend call returns.
FairSpec == Init /\ [][Next]_vars /\ WF_vars(RunnerStep)

(* --------------------------- eth_test_parser -------------------------- *)
\* The runner is another program: it does not run during a run of the parser.
RunnerIdle ==
  /\ parsed_tests = <<>>
  /\ persistent_test_state = EmptyState
  /\ init_state = EmptyState
  /\ process_aborted = FALSE
  /\ pc = "idle"
  /\ gi = 0 /\ si = 0 /\ ti = 0
  /\ res = Passed
  /\ test_res = <<>> /\ sub_group_res = <<>> /\ group_res = <<>>
  /\ ret = NoRet
  /\ num_tests = 0 /\ curr_test = 0
  /\ events = <<>>
  /\ printed = <<>>
  /\ started = <<>> /\ returned = <<>> /\ replayed = <<>>
  /\ abort_set_at = NotSet
  /\ updates = <<>>

\* The results get_deserialized_test_bodies can yield, in directory order.
VectorSeqs == UNION {[1..n -> BOOLEAN] : n \in 0..MaxVectors}

ParserInit ==
  /\ RunnerIdle
  /\ vectors \in VectorSeqs
  /\ iter_next = 0
  /\ handles = <<>>
  /\ warnings = <<>>
  /\ files = <<>>
  /\ parser_pc = "start"
  /\ parser_ret = NoRet

\* Variant of SpawnFor: a task is spawned for a vector that failed to parse.
SpawnFor_Always(parsed_ok) == TRUE

\* The filter_map closure: Some(task) on Ok, None on Err.
SpawnFor(parsed_ok) == parsed_ok

\* run() up to the conversion: the output path, the fetch, the output
\* directories and get_deserialized_test_bodies()?, each of which can fail.
ParserSetup ==
  /\ parser_pc = "start"
  /\ \E ok \in BOOLEAN :
       IF ok THEN parser_pc' = "iterating" /\ UNCHANGED parser_ret
       ELSE parser_pc' = "failed" /\ parser_ret' = Err
  /\ UNCHANGED <<vectors, iter_next, handles, warnings, files>>
  /\ UNCHANGED <<runner_vars, process_aborted, abort_set_at>>

\* join_all drains the filter_map: an Ok vector gets a spawn_blocking task,
\* which starts running at once.
SpawnTask ==
  /\ parser_pc = "iterating"
  /\ iter_next < Len(vectors)
  /\ SpawnFor(vectors[iter_next + 1])
  /\ handles' = Append(handles, [vec |-> iter_next + 1, state |-> "running"])
  /\ iter_next' = iter_next + 1
  /\ UNCHANGED <<vectors, warnings, files, parser_pc, parser_ret>>
  /\ UNCHANGED <<runner_vars, process_aborted, abort_set_at>>

\* join_all drains the filter_map: an Err vector is logged and skipped.
SkipVector ==
  /\ parser_pc = "iterating"
  /\ iter_next < Len(vectors)
  /\ ~SpawnFor(vectors[iter_next + 1])
  /\ warnings' = Append(warnings, iter_next + 1)
  /\ iter_next' = iter_next + 1
  /\ UNCHANGED <<vectors, handles, files, parser_pc, parser_ret>>
  /\ UNCHANGED <<runner_vars, process_aborted, abort_set_at>>

\* The filter_map is exhausted: join_all awaits the handles.
AwaitHandles ==
  /\ parser_pc = "iterating"
  /\ iter_next = Len(vectors)
  /\ parser_pc' = "joining"
  /\ UNCHANGED <<vectors, iter_next, handles, warnings, files, parser_ret>>
  /\ UNCHANGED <<runner_vars, process_aborted, abort_set_at>>

\* A conversion task ends on the blocking pool, at any time after its spawn.
TaskFinishes ==
  /\ \E k \in 1..Len(handles) :
       /\ handles[k].state = "running"
       /\ handles' = [handles EXCEPT ![k].state = "finished"]
  /\ UNCHANGED <<vectors, iter_next, warnings, files, parser_pc, parser_ret>>
  /\ UNCHANGED <<runner_vars, process_aborted, abort_set_at>>

\* join_all resolves once every task has ended.
JoinAll ==
  /\ parser_pc = "joining"
  /\ \A k \in 1..Len(handles) : handles[k].state = "finished"
  /\ parser_pc' = "writing"
  /\ UNCHANGED <<vectors, iter_next, handles, warnings, files, parser_ret>>
  /\ UNCHANGED <<runner_vars, process_aborted, abort_set_at>>

\* One turn of the for loop: the .cbor file of the next task is written.
WriteFile ==
  /\ parser_pc = "writing"
  /\ Len(files) < Len(handles)
  /\ files' = Append(files, handles[Len(files) + 1].vec)
  /\ UNCHANGED <<vectors, iter_next, handles, warnings, parser_pc, parser_ret>>
  /\ UNCHANGED <<runner_vars, process_aborted, abort_set_at>>

\* The for loop is over: run() returns Ok(()).
ParserReturns ==
  /\ parser_pc = "writing"
  /\ Len(files) = Len(handles)
  /\ parser_pc' = "done"
  /\ parser_ret' = Ok(<<>>)
  /\ UNCHANGED <<vectors, iter_next, handles, warnings, files>>
  /\ UNCHANGED <<runner_vars, process_aborted, abort_set_at>>

ParserNext ==
  \/ ParserSetup
  \/ SpawnTask
  \/ SkipVector
  \/ AwaitHandles
  \/ TaskFinishes
  \/ JoinAll
  \/ WriteFile
  \/ ParserReturns

ParserSpec == ParserInit /\ [][ParserNext]_vars

(* ------------------------- derived quantities ------------------------- *)
AllTests == FlatTests(parsed_tests)
N == Len(AllTests)

Shape ==
  [g \in 1..Len(parsed_tests) |->
     [s \in 1..Len(parsed_tests[g].sub_groups) |->
        Len(parsed_tests[g].sub_groups[s].tests)]]

\* Place of a test <<group, sub group, test>> in corpus order, from 1.
FlatIndex(pos) == TestsBefore(Shape, pos[1], pos[2]) + pos[3]

TestAt(pos) == parsed_tests[pos[1]].sub_groups[pos[2]].tests[pos[3]]

PositionSet ==
  UNION {UNION {{<<g, s, t>> : t \in 1..Len(parsed_tests[g].sub_groups[s].tests)} :
                  s \in 1..Len(parsed_tests[g].sub_groups)} :
           g \in 1..Len(parsed_tests)}

\* The positions of all tests, in corpus order.
Positions == [i \in 1..N |-> CHOOSE p \in PositionSet : FlatIndex(p) = i]

UniqueNames ==
  \A i, j \in 1..N : i # j => AllTests[i].name # AllTests[j].name

RunEnded == pc = "done"
Aborted == pc = "done" /\ ret = Err
Completed == pc = "done" /\ ret.tag = "Ok"

\* The signal was set between two tests: after test k returned from run_test
\* and before run_test was entered for test k + 1.
SetBetweenTests ==
  /\ abort_set_at.set
  /\ abort_set_at.pc \in {"tests", "sub_groups", "groups"}
  /\ 1 <= abort_set_at.completed
  /\ abort_set_at.completed < N

\* Index in `returned` of the last returned backend call of a test named nm.
LastReturned(nm) ==
  CHOOSE i \in 1..Len(returned) :
    /\ TestAt(returned[i].pos).name = nm
    /\ \A j \in (i + 1)..Len(returned) : TestAt(returned[j].pos).name # nm

(* ------------------------------- claims ------------------------------- *)
\* C1: whenever the run reports Aborted, every test whose backend call has
\* returned during the run has its status in the run state.
C1_NoComputedResultLost ==
  Aborted =>
    \A i \in 1..Len(returned) :
      LET nm == TestAt(returned[i].pos).name IN
        /\ nm \in DOMAIN persistent_test_state
        /\ persistent_test_state[nm] = Into(returned[LastReturned(nm)].status)

\* C2: from an empty run state and with unique test names, a signal set
\* between test k and test k + 1 ends the run Aborted with exactly k entries
\* in the run state, those of the first k tests.
C2_AbortBetweenTestsKeepsK ==
  (RunEnded /\ SetBetweenTests /\ init_state = EmptyState /\ UniqueNames) =>
    LET k == abort_set_at.completed IN
      /\ ret = Err
      /\ Cardinality(DOMAIN persistent_test_state) = k
      /\ DOMAIN persistent_test_state = {AllTests[i].name : i \in 1..k}
      /\ \A i \in 1..k :
           persistent_test_state[AllTests[i].name] = Into(returned[i].status)

C2_Witness ==
  /\ RunEnded /\ SetBetweenTests /\ init_state = EmptyState /\ UniqueNames
  /\ abort_set_at.completed = 1
  /\ abort_set_at.pc = "sub_groups"
  /\ Len(returned) = 2
  /\ Cardinality(DOMAIN persistent_test_state) = 1

\* The test results of a result tree, in order.
RECURSIVE FlatSubGroupRes(_)
FlatSubGroupRes(sgs) ==
  IF Len(sgs) = 0 THEN <<>> ELSE Head(sgs).test_res \o FlatSubGroupRes(Tail(sgs))

RECURSIVE FlatResults(_)
FlatResults(groups) ==
  IF Len(groups) = 0 THEN <<>>
  ELSE FlatSubGroupRes(Head(groups).sub_group_res) \o FlatResults(Tail(groups))

\* The test results the caller of run_plonky2_tests gets hold of.
Delivered(r) == IF r.tag = "Ok" THEN FlatResults(r.val) ELSE <<>>

\* C3 as stated: a signal set between test k and test k + 1 makes
\* run_plonky2_tests return the outcomes of the first k tests to its caller.
C3_DeliversFirstK ==
  (RunEnded /\ SetBetweenTests) =>
    LET k == abort_set_at.completed IN
      /\ Len(Delivered(ret)) = k
      /\ \A i \in 1..k :
           Delivered(ret)[i] = MkTestRunResult(AllTests[i], returned[i].status)

\* C3 amended: a signal set between test k and test k + 1 makes
\* run_plonky2_tests return Err(()), which carries no outcome at all; the
\* outcomes of the first k tests stay behind in the run state only.
C3_AbortDeliversNothing ==
  (RunEnded /\ SetBetweenTests) =>
    LET k == abort_set_at.completed IN
      /\ ret = Err
      /\ DOMAIN ret = {"tag"}
      /\ Delivered(ret) = <<>>
      /\ \A i \in 1..k : AllTests[i].name \in DOMAIN persistent_test_state
      /\ UniqueNames =>
           \A i \in 1..k :
             persistent_test_state[AllTests[i].name] = Into(returned[i].status)

C3_Witness ==
  /\ RunEnded /\ SetBetweenTests
  /\ abort_set_at.completed = 1
  /\ Len(returned) = 2
  /\ ret = Err

\* C4: once the signal is set at most one more backend call is started, and
\* once a checkpoint has read the signal set the run ends at once: no test
\* is announced or started after it, in this or any later sub group or group.
C4_CheckpointStep ==
  /\ (pc = "checkpoint" /\ process_aborted) =>
       (started' = started /\ events' = events /\ pc' \in {"checkpoint", "done"})
  /\ Aborted => (started' = started /\ events' = events /\ pc' = "done")

C4_RunToCheckpoint ==
  /\ [](abort_set_at.set => Len(started) <= abort_set_at.started + 1)
  /\ [][C4_CheckpointStep]_vars

C4_Witness ==
  /\ Aborted
  /\ abort_set_at.pc = "tests"
  /\ Len(started) = abort_set_at.started + 1
  /\ Len(started) < N
  /\ gi < Len(parsed_tests)
  /\ si < Len(CurGroup.sub_groups)

\* C5: with the signal never set, the run ends completed with every test of
\* the corpus called exactly once, in order, whatever the statuses; a run
\* that ends early has seen the signal set.
C5_BackendErrorDoesNotStop ==
  RunEnded =>
    /\ ~process_aborted =>
         (ret.tag = "Ok" /\ started = Positions /\ Len(returned) = N)
    /\ ret.tag = "Ok" => (started = Positions /\ Len(returned) = N)
    /\ (ret = Err \/ Len(started) < N) => process_aborted

C5_Witness ==
  /\ Completed /\ ~process_aborted
  /\ Len(returned) = 2
  /\ \E i \in 1..Len(returned) : returned[i].status.tag = "EvmErr"
  /\ \E i \in 1..Len(returned) :
       returned[i].status.tag = "IncorrectAccountFinalState"

\* C6: the status of a returned backend call is EvmErr(message) on a backend
\* error, Passed when the actual state root equals the expected one, and
\* otherwise IncorrectAccountFinalState with state = Difference(actual,
\* expected) and receipt and transaction Correct.
C6_StatusClassification ==
  \A i \in 1..Len(returned) :
    LET o == returned[i].outcome
        e == TestAt(returned[i].pos).expected
        st == returned[i].status
    IN /\ ~o.ok => st = [tag |-> "EvmErr", msg |-> o.msg]
       /\ (o.ok /\ o.state_root = e) => st = [tag |-> "Passed"]
       /\ (o.ok /\ o.state_root # e) =>
            /\ st.tag = "IncorrectAccountFinalState"
            /\ st.diff.state = [tag |-> "Difference",
                                actual |-> o.state_root, expected |-> e]
            /\ st.diff.receipt = [tag |-> "Correct"]
            /\ st.diff.transaction = [tag |-> "Correct"]
       /\ (i = Len(returned) /\ pc = "checkpoint") => res = st

C6_Witness ==
  /\ pc = "checkpoint"
  /\ Len(returned) = 2
  /\ res.tag = "IncorrectAccountFinalState"
  /\ res.diff.state.actual # res.diff.state.expected
  /\ returned[1].status.tag \in {"EvmErr", "Passed"}

\* C7: the tree returned by a run that completes has the groups, sub groups
\* and tests of the corpus, with the same names in the same order, and each
\* test result carries the status classified for that test.
C7_ResultsMirrorCorpus ==
  Completed =>
    /\ Len(ret.val) = Len(parsed_tests)
    /\ \A g \in 1..Len(parsed_tests) :
         LET grp == parsed_tests[g]
             gres == ret.val[g]
         IN /\ gres.name = grp.name
            /\ Len(gres.sub_group_res) = Len(grp.sub_groups)
            /\ \A sg \in 1..Len(grp.sub_groups) :
                 LET sub == grp.sub_groups[sg]
                     sres == gres.sub_group_res[sg]
                 IN /\ sres.name = sub.name
                    /\ Len(sres.test_res) = Len(sub.tests)
                    /\ \A t \in 1..Len(sub.tests) :
                         /\ sres.test_res[t].name = sub.tests[t].name
                         /\ sres.test_res[t].status =
                              returned[FlatIndex(<<g, sg, t>>)].status

C7_Witness ==
  /\ Completed
  /\ Len(parsed_tests) = 3
  /\ N = 2
  /\ Len(parsed_tests[1].sub_groups) = 2
  /\ returned[1].status.tag # "Passed"
  /\ returned[2].status.tag = "Passed"

InFlight == pc \in {"proving", "checkpoint"}

StartedSet == {started[i] : i \in 1..Len(started)}

C9_EntriesEqualExecuted ==
  (RunEnded /\ init_state = EmptyState /\ UniqueNames) =>
    /\ Cardinality(DOMAIN persistent_test_state) = Len(returned)
    /\ \A p \in PositionSet \ StartedSet :
         TestAt(p).name \notin DOMAIN persistent_test_state

\* Number of tests that have gone through run_test to its Ok.
NumCompleted == IF InFlight \/ Aborted THEN Len(started) - 1 ELSE Len(started)

CompletedNames == {TestAt(started[i]).name : i \in 1..NumCompleted}

LastCompleted(nm) ==
  CHOOSE i \in 1..NumCompleted :
    /\ TestAt(started[i]).name = nm
    /\ \A j \in (i + 1)..NumCompleted : TestAt(started[j]).name # nm

\* C10: starting from any run state, no entry is ever removed and an entry
\* whose key is no test name of the corpus keeps its value; while the signal
\* is unset the run state is the initial one with exactly the entries of the
\* tests that ran overwritten by their newly classified status.
C10_RerunOverwritesOnlyRunTests ==
  /\ DOMAIN init_state \subseteq DOMAIN persistent_test_state
  /\ \A k \in DOMAIN init_state :
       (\A i \in 1..N : AllTests[i].name # k) =>
         persistent_test_state[k] = init_state[k]
  /\ ~process_aborted =>
       /\ DOMAIN persistent_test_state = DOMAIN init_state \cup CompletedNames
       /\ \A k \in DOMAIN persistent_test_state :
            persistent_test_state[k] =
              IF k \in CompletedNames
              THEN Into(returned[LastCompleted(k)].status)
              ELSE init_state[k]

C10_Witness ==
  /\ Completed /\ ~process_aborted
  /\ DOMAIN init_state = {StaleKey, 1}
  /\ N = 2
  /\ persistent_test_state[1] # init_state[1]
  /\ persistent_test_state[StaleKey] = init_state[StaleKey]
  /\ Cardinality(DOMAIN persistent_test_state) = 3

NumEvents(op) == Cardinality({i \in 1..Len(events) : events[i].op = op})

\* C11: the progress indicator gets, in corpus order, one
\* set_current_test_name per started test and one notify_test_completed per
\* test whose backend call ran to completion, strictly alternating.
C11_AnnounceCompletePairs ==
  /\ \A i \in 1..Len(events) :
       /\ events[i].op = IF i % 2 = 1 THEN "set_current_test_name"
                         ELSE "notify_test_completed"
       /\ events[i].name = AllTests[(i + 1) \div 2].name
  /\ NumEvents("set_current_test_name") = Len(started)
  /\ pc # "checkpoint" => NumEvents("notify_test_completed") = Len(returned)

\* C12: the revm replay is attempted for a test exactly when the backend
\* succeeded, the state root differs from the expected one and the test has
\* a revm variant; the status is the same IncorrectAccountFinalState whether
\* the replay succeeded, failed or was skipped; the StateDiff is printed only
\* after a successful replay; and a run that ends Err has seen the signal.
C12_ReplayOnlyDiagnostic ==
  /\ \A i \in 1..Len(returned) :
       LET o == returned[i].outcome
           t == TestAt(returned[i].pos)
           mismatch == o.ok /\ o.state_root # t.expected
           tried == {j \in 1..Len(replayed) : replayed[j].pos = returned[i].pos}
       IN /\ (tried # {}) <=> (mismatch /\ t.revm)
          /\ Cardinality(tried) <= 1
          /\ mismatch =>
               returned[i].status =
                 [tag  |-> "IncorrectAccountFinalState",
                  diff |-> [state       |-> Difference(o.state_root, t.expected),
                            receipt     |-> Correct,
                            transaction |-> Correct]]
          /\ (\E k \in 1..Len(printed) : printed[k] = returned[i].pos) <=>
               (\E j \in tried : replayed[j].replay = "ok")
  /\ (RunEnded /\ ~process_aborted) => (ret.tag = "Ok" /\ Len(returned) = N)

C12_Witness ==
  /\ Completed /\ ~process_aborted
  /\ N = 2
  /\ Len(replayed) = 1
  /\ replayed[1].replay = "err"
  /\ printed = <<>>
  /\ returned[1].status.tag = "IncorrectAccountFinalState"
  /\ returned[2].status.tag = "IncorrectAccountFinalState"
  /\ ~TestAt(returned[2].pos).revm

\* C13: the status of a test is written to the run state before the signal
\* is checked: when the check that follows the backend call of a test is
\* about to be made, the run state holds that test's status.
C13_WriteBeforeCheck ==
  pc = "checkpoint" =>
    /\ Len(updates) = Len(returned)
    /\ CurTest.name \in DOMAIN persistent_test_state
    /\ persistent_test_state[CurTest.name] = Into(res)

\* C14: with the signal set before run_plonky2_tests starts and a corpus of
\* at least one test, the run ends Aborted after exactly one backend call,
\* that of the first test, with the run state untouched and no completion.
C14_SetBeforeStart ==
  (abort_set_at.set /\ abort_set_at.pc = "start" /\ N >= 1) =>
    /\ Len(started) <= 1
    /\ persistent_test_state = init_state
    /\ updates = <<>>
    /\ curr_test = 0
    /\ NumEvents("notify_test_completed") = 0
    /\ RunEnded =>
         /\ ret = Err
         /\ started = <<Positions[1]>>
         /\ Len(returned) = 1

C14_Witness ==
  /\ Aborted
  /\ abort_set_at.set /\ abort_set_at.pc = "start"
  /\ N = 2
  /\ Len(returned) = 1
  /\ init_state # EmptyState

\* C15: the run ends completed exactly when no checkpoint read the signal
\* set, that is when the signal was never set or set only after the last
\* checkpoint; a corpus without tests never ends Aborted.
C15_CompletedIffNoCheckpointSawSignal ==
  RunEnded =>
    /\ ret.tag = "Ok" <=> (~abort_set_at.set \/ abort_set_at.completed = N)
    /\ ret.tag \in {"Ok", "Err"}
    /\ N = 0 => ret.tag = "Ok"

C15_Witness ==
  /\ Completed
  /\ abort_set_at.set
  /\ abort_set_at.pc \in {"tests", "sub_groups", "groups"}
  /\ N = 2
  /\ abort_set_at.completed = 2

C15_WitnessEmpty ==
  /\ Completed
  /\ abort_set_at.set /\ abort_set_at.pc = "start"
  /\ N = 0
  /\ Len(parsed_tests) = 1

\* C16: when every backend call returns, the run ends, completed or Aborted,
\* after at most N backend calls, no test being called twice.
C16_NoRepeat ==
  /\ Len(started) <= N
  /\ Len(returned) <= Len(started)
  /\ \A i, j \in 1..Len(started) : i # j => started[i] # started[j]
  /\ \A i, j \in 1..Len(returned) : i # j => returned[i].pos # returned[j].pos
  /\ RunEnded => ret.tag \in {"Ok", "Err"}

C16_RunEnds ==
  /\ <>RunEnded
  /\ []C16_NoRepeat

C16_Witness ==
  /\ Completed
  /\ N = 2
  /\ Len(returned) = 2
  /\ returned[1].status.tag = "EvmErr"
  /\ returned[2].status.tag = "EvmErr"

\* C17: the number of completions notified equals the number of run state
\* updates made in this run and never exceeds the total counted up front; a
\* run that has ended is completed exactly when that number is N, and the
\* test at which the abort is seen adds neither an update nor a completion.
C17_CompletionsEqualUpdates ==
  /\ curr_test = Len(updates)
  /\ NumEvents("notify_test_completed") = curr_test
  /\ pc # "start" => (num_tests = N /\ curr_test <= num_tests)
  /\ RunEnded => (ret.tag = "Ok" <=> curr_test = N)
  /\ Aborted => (curr_test = Len(returned) - 1 /\ Len(updates) = Len(returned) - 1)

C17_Witness ==
  /\ Aborted
  /\ N = 2
  /\ Len(returned) = 2
  /\ curr_test = 1
  /\ Len(updates) = 1

\* C18: the run state is keyed by the test name alone: after a completed run
\* the entry of a name holds the status of the last test of that name in
\* corpus order, so two tests of one name leave one entry, while the result
\* tree holds the result of every test.
C18_KeyedByBareName ==
  Completed =>
    /\ \A i \in 1..N :
         LET nm == AllTests[i].name IN
           /\ nm \in DOMAIN persistent_test_state
           /\ persistent_test_state[nm] = Into(returned[LastReturned(nm)].status)
    /\ Cardinality(DOMAIN persistent_test_state \ DOMAIN init_state)
         <= Cardinality({AllTests[i].name : i \in 1..N})
    /\ Len(Delivered(ret)) = N
    /\ \A i \in 1..N :
         Delivered(ret)[i] = [name |-> AllTests[i].name, status |-> returned[i].status]

C18_Witness ==
  /\ Completed
  /\ init_state = EmptyState
  /\ N = 2
  /\ AllTests[1].name = AllTests[2].name
  /\ returned[1].status # returned[2].status
  /\ Cardinality(DOMAIN persistent_test_state) = 1
  /\ persistent_test_state[AllTests[1].name] = Into(returned[2].status)
  /\ Delivered(ret)[1].status = returned[1].status

Count(seq, x) == Cardinality({j \in 1..Len(seq) : seq[j] = x})

HandleVecs == [k \in 1..Len(handles) |-> handles[k].vec]

====
